---- MODULE Spec2Model ----
(***************************************************************************)
(* Model of the aggregation engine of src/app.py: classificar_janela,      *)
(* preparar_dataframe, processar_dados_diarios and                         *)
(* processar_dados_periodo, driven by the request handler gerar.           *)
(*                                                                         *)
(* Representation.                                                         *)
(*  - A text cell is a sequence of one-character strings; a missing text   *)
(*    cell (NaN) is the sequence NaN, which no text equals.                *)
(*  - A timestamp is [dia, seg]: a day number >= 1 and the seconds since   *)
(*    midnight; NaT is [dia |-> 0, seg |-> 0]; a cell the loader could not *)
(*    parse is Invalido until preparar_dataframe coerces it to NaT.        *)
(*  - A percentage rounded to k decimals is the integer number of 10^-k    *)
(*    units (TD_PCT 33.33 is 3333, J1_PCT 6.7 is 67).                      *)
(*  - The spreadsheet is a bag of rows plus the set of its column names:   *)
(*    every groupby of the code sorts its keys and every sort_values has a *)
(*    key that is total on the rows it sorts or is stable, so no result    *)
(*    depends on the order of the spreadsheet's rows.                      *)
(*  - Columns that are present hold text (object dtype) or timestamps, as  *)
(*    pd.read_excel and preparar_dataframe leave them.                     *)
(***************************************************************************)
EXTENDS Integers, Sequences, FiniteSets, Bags, TLC

VARIABLES colunas, df, pedido, resultado, dt, janela

vars == <<colunas, df, pedido, resultado, dt, janela>>

(***************************************************************************)
(* Bounds of the model.                                                    *)
(***************************************************************************)
NumDias == 2
MaxLinhas == 3
MaxLinhasRanking == 6
MaxLinhasCorte == 22

Dias == 1..NumDias

(***************************************************************************)
(* Text.                                                                   *)
(***************************************************************************)
Maiusculas == <<"A","B","C","D","E","F","G","H","I","J","K","L","M",
                "N","O","P","Q","R","S","T","U","V","W","X","Y","Z">>
Minusculas == <<"a","b","c","d","e","f","g","h","i","j","k","l","m",
                "n","o","p","q","r","s","t","u","v","w","x","y","z">>
Digitos == <<"0","1","2","3","4","5","6","7","8","9">>

\* The characters the model's texts use, in code-point order.
Alfabeto == <<" ", "/">> \o Digitos \o <<":">> \o Maiusculas \o Minusculas

Ord(c) == CHOOSE i \in DOMAIN Alfabeto : Alfabeto[i] = c

Minuscula(c) ==
    IF \E i \in DOMAIN Maiusculas : Maiusculas[i] = c
    THEN Minusculas[CHOOSE i \in DOMAIN Maiusculas : Maiusculas[i] = c]
    ELSE c

NaN == <<"nan">>

isna(x) == x = NaN

\* Python's order on str: by code point, a proper prefix first.
RECURSIVE TextoMenor(_, _)
TextoMenor(a, b) ==
    IF b = <<>> THEN FALSE
    ELSE IF a = <<>> THEN TRUE
    ELSE IF Head(a) = Head(b) THEN TextoMenor(Tail(a), Tail(b))
    ELSE Ord(Head(a)) < Ord(Head(b))

\* Series.str.contains(pat, case=False, na=False) on one cell.
str_contains(s, pat) ==
    /\ ~isna(s)
    /\ \E i \in 0..(Len(s) - Len(pat)) :
          \A j \in 1..Len(pat) : Minuscula(s[i + j]) = Minuscula(pat[j])

Entregue == <<"E","n","t","r","e","g","u","e">>
Devolvido == <<"D","e","v","o","l","v","i","d","o">>
EmEntrega == <<"E","m"," ","E","n","t","r","e","g","a">>
MarcaMotorista == <<"M","O","T","O","R","I","S","T","A">>
TotalGeral == <<"T","O","T","A","L"," ","G","E","R","A","L">>

(***************************************************************************)
(* Numbers.                                                                *)
(***************************************************************************)
\* round(num / den, k) as an integer count of 10^-k units, given num already
\* scaled by 10^k: the nearest integer to num / den, a tie going to the even
\* one (Python's and numpy's round). num >= 0, den > 0.
Round(num, den) ==
    LET q == num \div den
        r == num % den
    IN  IF 2 * r < den THEN q
        ELSE IF 2 * r > den THEN q + 1
        ELSE IF q % 2 = 0 THEN q ELSE q + 1

\* sum() of a sequence of numbers.
RECURSIVE Soma(_)
Soma(s) == IF s = <<>> THEN 0 ELSE Head(s) + Soma(Tail(s))

\* The number of rows of bag b among the row kinds in S.
RECURSIVE SomaBag(_, _)
SomaBag(b, S) ==
    IF S = {} THEN 0
    ELSE LET x == CHOOSE x \in S : TRUE
         IN  b[x] + SomaBag(b, S \ {x})

\* len(frame)
Tamanho(b) == SomaBag(b, DOMAIN b)

\* frame[mask]: the rows of b that satisfy P.
Filtrar(b, P(_)) == [r \in {x \in DOMAIN b : P(x)} |-> b[r]]

\* mask.sum(): how many rows of b satisfy P.
Contar(b, P(_)) == SomaBag(b, {x \in DOMAIN b : P(x)})

\* The rows of b with f applied to each.
Aplicar(b, f(_)) ==
    [y \in {f(x) : x \in DOMAIN b} |-> SomaBag(b, {x \in DOMAIN b : f(x) = y})]

\* sorted(S) / sort_values on rows with distinct keys: the elements of S in
\* the strict total order Menor.
OrdenarConjunto(S, Menor(_, _)) ==
    [i \in 1..Cardinality(S) |->
        CHOOSE x \in S : Cardinality({y \in S : Menor(y, x)}) = i - 1]

\* sort_values(by, ascending=False) on one column: descending by Chave, rows
\* with equal keys keeping their order.
OrdenarDesc(s, Chave(_)) ==
    LET Antes(i, j) == \/ Chave(s[i]) > Chave(s[j])
                       \/ Chave(s[i]) = Chave(s[j]) /\ i < j
    IN  [k \in 1..Len(s) |->
            s[CHOOSE i \in 1..Len(s) :
                Cardinality({j \in 1..Len(s) : Antes(j, i)}) = k - 1]]

(***************************************************************************)
(* Timestamps and the window classifier.                                   *)
(***************************************************************************)
NaT == [dia |-> 0, seg |-> 0]
Invalido == [dia |-> -1, seg |-> 0]

Hora(h, m) == (h * 60 + m) * 60
SegundosDia == Hora(24, 0)

\* pd.to_datetime('09:00').time() and the other three limits.
Limite1 == Hora(9, 0)
Limite2 == Hora(10, 30)
Limite3 == Hora(12, 0)
Limite4 == Hora(14, 30)

JanelaNaN == "nan"

ClassificarFechado(t) ==
    IF t = NaT THEN JanelaNaN
    ELSE IF t.seg <= Limite1 THEN "J1"
    ELSE IF t.seg <= Limite2 THEN "J2"
    ELSE IF t.seg <= Limite3 THEN "J3"
    ELSE IF t.seg <= Limite4 THEN "J4"
    ELSE "J5"

classificar_janela(t) ==
    IF t = NaT THEN JanelaNaN
    ELSE IF t.seg < Limite1 THEN "J1"
    ELSE IF t.seg < Limite2 THEN "J2"
    ELSE IF t.seg < Limite3 THEN "J3"
    ELSE IF t.seg < Limite4 THEN "J4"
    ELSE "J5"

(***************************************************************************)
(* Rows, frames and results.                                               *)
(***************************************************************************)
\* One row of the spreadsheet. A column that the spreadsheet does not have
\* is not read by the code; its field is kept at the missing value.
Linha(t, sit, mot, bai, tp) ==
    [DTHRSAIDA |-> t, SITUACAO |-> sit, MOTORISTA |-> mot, BAIRRO |-> bai,
     TPRODADO |-> tp]

Vazio(b) == DOMAIN b = {}

\* A DataFrame the code builds: its column names and its rows, in order.
DataFrame(columns, rows) == [columns |-> columns, rows |-> rows]

\* raise ...: the failure, its kind and the step that raised it.
Erro(tipo, etapa) == [tipo |-> "erro", erro |-> tipo, etapa |-> etapa]

\* pd.to_datetime(col, errors='coerce') on one cell.
to_datetime(t) == IF t = Invalido THEN NaT ELSE t

preparar_dataframe(cols, d) ==
    IF "DTHRSAIDA" \in cols
    THEN Aplicar(d, LAMBDA r : [r EXCEPT !.DTHRSAIDA = to_datetime(r.DTHRSAIDA)])
    ELSE d

\* Series.dt.strftime('%H:%M') on one timestamp.
StrftimeComSegundos(t) ==
    LET hh == t.seg \div Hora(1, 0)
        mm == (t.seg \div Hora(0, 1)) % 60
        ss == t.seg % 60
    IN  <<Digitos[(hh \div 10) + 1], Digitos[(hh % 10) + 1], ":",
          Digitos[(mm \div 10) + 1], Digitos[(mm % 10) + 1], ":",
          Digitos[(ss \div 10) + 1], Digitos[(ss % 10) + 1]>>

strftime_HM(t) ==
    LET hh == t.seg \div Hora(1, 0)
        mm == (t.seg \div Hora(0, 1)) % 60
    IN  <<Digitos[(hh \div 10) + 1], Digitos[(hh % 10) + 1], ":",
          Digitos[(mm \div 10) + 1], Digitos[(mm % 10) + 1]>>

(***************************************************************************)
(* processar_dados_diarios                                                 *)
(***************************************************************************)
meta(j) ==
    CASE j = "J1" -> 30
      [] j = "J2" -> 20
      [] j = "J3" -> 10
      [] j = "J4" -> 30
      [] j = "J5" -> 10

MetaTotalDia == 100
TopRanking == 20

\* round(100 * devolvido / (entregue + devolvido), 2) if the sum is > 0
\* else 0.0, in hundredths of a percent.
TaxaTruncada(entregue, devolvido) ==
    IF entregue + devolvido > 0
    THEN (100 * 100 * devolvido) \div (entregue + devolvido)
    ELSE 0

TaxaDevolucao(entregue, devolvido) ==
    IF entregue + devolvido > 0
    THEN Round(100 * 100 * devolvido, entregue + devolvido)
    ELSE 0

\* round(100 * n / alvo, 1) if alvo else 0, in tenths of a percent.
PctMeta(n, alvo) == IF alvo # 0 THEN Round(10 * 100 * n, alvo) ELSE 0

\* base[base['JANELA'] == j] grouped by (HORA_SAIDA, MOTORISTA, BAIRRO),
\* counted and sorted: the rows of the detail table. groupby drops the rows
\* whose key has a missing value.
DistJanela(base, j) ==
    LET base_J == Filtrar(base, LAMBDA r : classificar_janela(r.DTHRSAIDA) = j)
        Chave(r) == <<strftime_HM(r.DTHRSAIDA), r.MOTORISTA, r.BAIRRO>>
        Com == {r \in DOMAIN base_J : ~isna(r.MOTORISTA) /\ ~isna(r.BAIRRO)}
        Chaves == {Chave(r) : r \in Com}
        Menor(a, b) ==
            \/ TextoMenor(a[1], b[1])
            \/ a[1] = b[1] /\ TextoMenor(a[2], b[2])
            \/ a[1] = b[1] /\ a[2] = b[2] /\ TextoMenor(a[3], b[3])
        ord == OrdenarConjunto(Chaves, Menor)
    IN  DataFrame(<<"HORA_SAIDA", "MOTORISTA", "BAIRRO", "QTD">>,
          [i \in DOMAIN ord |->
            [HORA_SAIDA |-> ord[i][1], MOTORISTA |-> ord[i][2],
             BAIRRO |-> ord[i][3],
             QTD |-> SomaBag(base_J, {r \in Com : Chave(r) = ord[i]})]])

\* The order of rank.sort_values(['TOTAL_MOTORISTA', 'QTD', 'MOTORISTA',
\* 'BAIRRO'], ascending=[False, False, True, True]).
RankMenor(a, b) ==
    \/ a.TOTAL_MOTORISTA > b.TOTAL_MOTORISTA
    \/ a.TOTAL_MOTORISTA = b.TOTAL_MOTORISTA /\ a.QTD > b.QTD
    \/ a.TOTAL_MOTORISTA = b.TOTAL_MOTORISTA /\ a.QTD = b.QTD
         /\ TextoMenor(a.MOTORISTA, b.MOTORISTA)
    \/ a.TOTAL_MOTORISTA = b.TOTAL_MOTORISTA /\ a.QTD = b.QTD
         /\ a.MOTORISTA = b.MOTORISTA /\ TextoMenor(a.BAIRRO, b.BAIRRO)

\* rank.head(n)
HeadMais(s, n) == IF Len(s) <= n + 1 THEN s ELSE SubSeq(s, 1, n + 1)

head(s, n) == IF Len(s) <= n THEN s ELSE SubSeq(s, 1, n)

\* The ranking of the day: (MOTORISTA, BAIRRO) groups with their size and
\* the driver's total over all of the driver's groups, sorted, first 20.
Ranking(base) ==
    LET Com == {r \in DOMAIN base : ~isna(r.MOTORISTA) /\ ~isna(r.BAIRRO)}
        Pares == {<<r.MOTORISTA, r.BAIRRO>> : r \in Com}
        QTD(p) == SomaBag(base, {r \in Com : <<r.MOTORISTA, r.BAIRRO>> = p})
        rank_tot(m) == SomaBag(base, {r \in Com : r.MOTORISTA = m})
        rank == {[MOTORISTA |-> p[1], BAIRRO |-> p[2], QTD |-> QTD(p),
                  TOTAL_MOTORISTA |-> rank_tot(p[1])] : p \in Pares}
    IN  DataFrame(<<"MOTORISTA", "BAIRRO", "QTD", "TOTAL_MOTORISTA">>,
                  head(OrdenarConjunto(rank, RankMenor), TopRanking))

\* df[df['DTHRSAIDA'].dt.date == data_ref]: a missing timestamp has no date
\* and equals none.
BaseDoDiaComFaltantes(d, data_ref) ==
    Filtrar(d, LAMBDA r : r.DTHRSAIDA = NaT \/ r.DTHRSAIDA.dia = data_ref)

BaseDoDia(d, data_ref) ==
    Filtrar(d, LAMBDA r : r.DTHRSAIDA # NaT /\ r.DTHRSAIDA.dia = data_ref)

\* base['JANELA'].value_counts().get(j, 0)
JanelaCountsDistintas(base, j) ==
    Cardinality({r \in DOMAIN base : classificar_janela(r.DTHRSAIDA) = j})

janela_counts(base, j) ==
    Contar(base, LAMBDA r : classificar_janela(r.DTHRSAIDA) = j)

processar_dados_diarios(cols, d, data_ref) ==
    IF "DTHRSAIDA" \notin cols THEN Erro("MissingColumn", "DTHRSAIDA")
    ELSE
    LET base == BaseDoDia(d, data_ref)
        tem_sit == "SITUACAO" \in cols
        entregue == IF tem_sit
                    THEN Contar(base, LAMBDA r : str_contains(r.SITUACAO, Entregue))
                    ELSE 0
        devolvido == IF tem_sit
                     THEN Contar(base, LAMBDA r : str_contains(r.SITUACAO, Devolvido))
                     ELSE 0
        em_entrega == IF tem_sit
                      THEN Contar(base, LAMBDA r : str_contains(r.SITUACAO, EmEntrega))
                      ELSE 0
        TOTAL == Tamanho(base)
        J(j) == janela_counts(base, j)
        tem_chaves == "MOTORISTA" \in cols /\ "BAIRRO" \in cols
    IN  IF Vazio(base) THEN Erro("NoData", "data")
        ELSE IF J("J1") > 0 /\ ~tem_chaves THEN Erro("KeyError", "J1_dist")
        ELSE IF J("J4") > 0 /\ ~tem_chaves THEN Erro("KeyError", "J4_dist")
        ELSE
        [tipo |-> "diario",
         data_ref |-> data_ref,
         TOTAL |-> TOTAL,
         ENTREGUE |-> entregue,
         DEVOLVIDO |-> devolvido,
         EM_ENTREGA |-> em_entrega,
         TD_PCT |-> TaxaDevolucao(entregue, devolvido),
         J1 |-> J("J1"), J2 |-> J("J2"), J3 |-> J("J3"),
         J4 |-> J("J4"), J5 |-> J("J5"),
         J1_PCT |-> PctMeta(J("J1"), meta("J1")),
         J2_PCT |-> PctMeta(J("J2"), meta("J2")),
         J3_PCT |-> PctMeta(J("J3"), meta("J3")),
         J4_PCT |-> PctMeta(J("J4"), meta("J4")),
         J5_PCT |-> PctMeta(J("J5"), meta("J5")),
         TOTAL_PCT |-> Round(10 * 100 * TOTAL, MetaTotalDia),
         GAP_J1 |-> meta("J1") - J("J1"),
         GAP_J4 |-> meta("J4") - J("J4"),
         J1_dist |-> IF J("J1") > 0 THEN DistJanela(base, "J1")
                     ELSE DataFrame(<<"HORA_SAIDA", "MOTORISTA", "BAIRRO", "QTD">>, <<>>),
         J4_dist |-> IF J("J4") > 0 THEN DistJanela(base, "J4")
                     ELSE DataFrame(<<"HORA_SAIDA", "MOTORISTA", "BAIRRO", "QTD">>, <<>>),
         rank |-> IF tem_chaves THEN Ranking(base)
                  ELSE DataFrame(<<"MOTORISTA", "BAIRRO", "QTD", "TOTAL_MOTORISTA">>,
                                 <<>>)]

(***************************************************************************)
(* processar_dados_periodo                                                 *)
(***************************************************************************)
meta_base(j) == IF j = "TOTAL" THEN 100 ELSE meta(j)

\* A TPRODADO cell: an integer or a float (v10 is ten times its value), a
\* text, or missing.
Codigo(tipo, v10) == [tipo |-> tipo, v10 |-> v10]
CodigoNaN == Codigo("nan", 0)

OutroNaoMapeado == "Outro / Nao mapeado"
TotalGeralVeiculo == "TOTAL GERAL"

\* The dict literal of the vehicle labels, entry by entry.
mapa_veiculo ==
    << <<Codigo("int", 20), "02 - Toco (Cacamba 5m3)">>,
       <<Codigo("int", 50), "05 - Utilitario (HR)">>,
       <<Codigo("int", 60), "06 - Cacamba 3m3">>,
       <<Codigo("int", 70), "07 - VUC (Carroceria 6m)">>,
       <<Codigo("int", 0), "00 - Munk">>,
       <<Codigo("float", 20), "02 - Toco (Cacamba 5m3)">>,
       <<Codigo("float", 50), "05 - Utilitario (HR)">>,
       <<Codigo("float", 60), "06 - Cacamba 3m3">>,
       <<Codigo("float", 70), "07 - VUC (Carroceria 6m)">>,
       <<Codigo("float", 0), "00 - Munk">> >>

\* The labels in Python's str order (the order groupby gives its keys).
RotulosOrdenados ==
    <<"00 - Munk", "02 - Toco (Cacamba 5m3)", "05 - Utilitario (HR)",
      "06 - Cacamba 3m3", "07 - VUC (Carroceria 6m)", OutroNaoMapeado>>

RotuloMenor(a, b) ==
    (CHOOSE i \in DOMAIN RotulosOrdenados : RotulosOrdenados[i] = a)
      < (CHOOSE i \in DOMAIN RotulosOrdenados : RotulosOrdenados[i] = b)

\* Series.map(mapa_veiculo).fillna('Outro / Não mapeado') on one cell: a
\* dict key matches a number equal to it, whether int or float.
VeiculoTipoSoInteiro(c) ==
    LET achados == {i \in DOMAIN mapa_veiculo : mapa_veiculo[i][1] = c
                                                 /\ c.tipo = "int"}
    IN  IF achados = {} THEN OutroNaoMapeado
        ELSE mapa_veiculo[CHOOSE i \in achados : \A k \in achados : k <= i][2]

VeiculoTipo(c) ==
    LET achados == {i \in DOMAIN mapa_veiculo :
                       /\ c.tipo \in {"int", "float"}
                       /\ mapa_veiculo[i][1].v10 = c.v10}
    IN  IF achados = {} THEN OutroNaoMapeado
        ELSE mapa_veiculo[CHOOSE i \in achados : \A k \in achados : k <= i][2]

\* The table of one breakdown before its total row: the rows of base grouped
\* by Grupo (no row of base has a missing key), with the delivered and the
\* returned counted by status text, in the order of
\* pd.concat([ent, dev], axis=1) (the keys of ent, then the keys only dev
\* has, each sorted), then sort_values('TOTAL', ascending=False).
TabelaGrupo(base, Grupo(_), Menor(_, _), Taxa(_, _)) ==
    LET E(r) == str_contains(r.SITUACAO, Entregue)
        D(r) == str_contains(r.SITUACAO, Devolvido)
        ent == {Grupo(r) : r \in {x \in DOMAIN base : E(x)}}
        dev == {Grupo(r) : r \in {x \in DOMAIN base : D(x)}}
        indice == OrdenarConjunto(ent, Menor) \o OrdenarConjunto(dev \ ent, Menor)
        Linha_(k) ==
            LET e == SomaBag(base, {r \in DOMAIN base : Grupo(r) = k /\ E(r)})
                v == SomaBag(base, {r \in DOMAIN base : Grupo(r) = k /\ D(r)})
            IN  [CHAVE |-> k, ENTREGAS |-> e, DEVOLUCOES |-> v, TOTAL |-> e + v,
                 TD_PCT |-> Taxa(e, v)]
        tabela == [i \in DOMAIN indice |-> Linha_(indice[i])]
    IN  OrdenarDesc(tabela, LAMBDA x : x.TOTAL)

Coluna(t, Campo(_)) == [i \in DOMAIN t |-> Campo(t[i])]

\* The grand-total row of a table: the sums of its three count columns.
TotalSemDevolucoes(t) ==
    [ENTREGAS |-> Soma(Coluna(t, LAMBDA x : x.ENTREGAS)),
     DEVOLUCOES |-> Soma(Coluna(t, LAMBDA x : x.DEVOLUCOES)),
     TOTAL |-> Soma(Coluna(t, LAMBDA x : x.ENTREGAS))]

total_row(t) ==
    [ENTREGAS |-> Soma(Coluna(t, LAMBDA x : x.ENTREGAS)),
     DEVOLUCOES |-> Soma(Coluna(t, LAMBDA x : x.DEVOLUCOES)),
     TOTAL |-> Soma(Coluna(t, LAMBDA x : x.TOTAL))]

\* base_motoristas.groupby('MOTORISTA')['DTHRSAIDA']
\*     .apply(lambda s: s.dt.date.nunique()), for driver m.
DiasTrabalhadosPorLinha(base_motoristas, m) ==
    SomaBag(base_motoristas, {x \in DOMAIN base_motoristas : x.MOTORISTA = m})

dias_trabalhados(base_motoristas, m) ==
    Cardinality({r.DTHRSAIDA.dia : r \in {x \in DOMAIN base_motoristas :
                                             x.MOTORISTA = m}})

\* 4. PRODUTIVIDADE POR MOTORISTA
ProdMotorista(base_periodo) ==
    LET base_motoristas ==
            Filtrar(base_periodo, LAMBDA r : str_contains(r.MOTORISTA, MarcaMotorista))
        dias_trab(m) == dias_trabalhados(base_motoristas, m)
        prod == TabelaGrupo(base_motoristas, LAMBDA r : r.MOTORISTA, TextoMenor,
                            TaxaDevolucao)
        tot == total_row(prod)
    IN  DataFrame(<<"MOTORISTA", "ENTREGAS", "DEVOLUCOES", "TOTAL", "TD_PCT",
                    "MEDIA_DIA">>,
        [i \in DOMAIN prod |->
            [MOTORISTA |-> prod[i].CHAVE, ENTREGAS |-> prod[i].ENTREGAS,
             DEVOLUCOES |-> prod[i].DEVOLUCOES, TOTAL |-> prod[i].TOTAL,
             TD_PCT |-> prod[i].TD_PCT,
             MEDIA_DIA |-> IF dias_trab(prod[i].CHAVE) > 0
                           THEN Round(10 * prod[i].TOTAL, dias_trab(prod[i].CHAVE))
                           ELSE 0]]
        \o <<[MOTORISTA |-> TotalGeral, ENTREGAS |-> tot.ENTREGAS,
              DEVOLUCOES |-> tot.DEVOLUCOES, TOTAL |-> tot.TOTAL,
              TD_PCT |-> "", MEDIA_DIA |-> ""]>>)

\* 5. ANALISE POR BAIRRO
BairroAnalise(base_periodo) ==
    LET com == Filtrar(base_periodo, LAMBDA r : ~isna(r.BAIRRO))
        bairro == TabelaGrupo(com, LAMBDA r : r.BAIRRO, TextoMenor, TaxaDevolucao)
        tot == total_row(bairro)
    IN  DataFrame(<<"BAIRRO", "ENTREGAS", "DEVOLUCOES", "TOTAL", "TD_PCT">>,
        [i \in DOMAIN bairro |->
            [BAIRRO |-> bairro[i].CHAVE, ENTREGAS |-> bairro[i].ENTREGAS,
             DEVOLUCOES |-> bairro[i].DEVOLUCOES, TOTAL |-> bairro[i].TOTAL,
             TD_PCT |-> bairro[i].TD_PCT]]
        \o <<[BAIRRO |-> TotalGeral, ENTREGAS |-> tot.ENTREGAS,
              DEVOLUCOES |-> tot.DEVOLUCOES, TOTAL |-> tot.TOTAL,
              TD_PCT |-> ""]>>)

\* 6. ANALISE POR TIPO DE VEICULO (TPRODADO)
VeiculoAnalise(cols, base_periodo) ==
    IF "TPRODADO" \in cols
    THEN
      LET veic == TabelaGrupo(base_periodo, LAMBDA r : VeiculoTipo(r.TPRODADO),
                              RotuloMenor, TaxaDevolucao)
          tot == total_row(veic)
      IN  DataFrame(<<"VEICULO_TIPO", "ENTREGAS", "DEVOLUCOES", "TOTAL", "TD_PCT">>,
          [i \in DOMAIN veic |->
              [VEICULO_TIPO |-> veic[i].CHAVE, ENTREGAS |-> veic[i].ENTREGAS,
               DEVOLUCOES |-> veic[i].DEVOLUCOES, TOTAL |-> veic[i].TOTAL,
               TD_PCT |-> veic[i].TD_PCT]]
          \o <<[VEICULO_TIPO |-> TotalGeralVeiculo, ENTREGAS |-> tot.ENTREGAS,
                DEVOLUCOES |-> tot.DEVOLUCOES, TOTAL |-> tot.TOTAL,
                TD_PCT |-> ""]>>)
    ELSE DataFrame(<<"VEICULO_TIPO", "ENTREGAS", "DEVOLUCOES", "TOTAL", "TD_PCT">>, <<>>)

\* The accumulators before the day-by-day loop.
Acumulado0 ==
    [tipo |-> "acumulado", TOTAL |-> 0, ENTREGUE |-> 0, DEVOLVIDO |-> 0,
     EM_ENTREGA |-> 0, J1 |-> 0, J2 |-> 0, J3 |-> 0, J4 |-> 0, J5 |-> 0,
     linhas_dia |-> <<>>]

\* One pass of the loop body for the day's report dados_dia.
AcumularUltimoJ5(ac, dados_dia) ==
    [ac EXCEPT !.TOTAL = @ + dados_dia.TOTAL,
               !.ENTREGUE = @ + dados_dia.ENTREGUE,
               !.DEVOLVIDO = @ + dados_dia.DEVOLVIDO,
               !.EM_ENTREGA = @ + dados_dia.EM_ENTREGA,
               !.J1 = @ + dados_dia.J1, !.J2 = @ + dados_dia.J2,
               !.J3 = @ + dados_dia.J3, !.J4 = @ + dados_dia.J4,
               !.J5 = dados_dia.J5,
               !.linhas_dia = Append(@,
                   [DATA |-> dados_dia.data_ref, TOTAL |-> dados_dia.TOTAL,
                    J1 |-> dados_dia.J1, J2 |-> dados_dia.J2, J3 |-> dados_dia.J3,
                    J4 |-> dados_dia.J4, J5 |-> dados_dia.J5,
                    TD_PCT_DIA |-> dados_dia.TD_PCT])]

Acumular(ac, dados_dia) ==
    [ac EXCEPT !.TOTAL = @ + dados_dia.TOTAL,
               !.ENTREGUE = @ + dados_dia.ENTREGUE,
               !.DEVOLVIDO = @ + dados_dia.DEVOLVIDO,
               !.EM_ENTREGA = @ + dados_dia.EM_ENTREGA,
               !.J1 = @ + dados_dia.J1, !.J2 = @ + dados_dia.J2,
               !.J3 = @ + dados_dia.J3, !.J4 = @ + dados_dia.J4,
               !.J5 = @ + dados_dia.J5,
               !.linhas_dia = Append(@,
                   [DATA |-> dados_dia.data_ref, TOTAL |-> dados_dia.TOTAL,
                    J1 |-> dados_dia.J1, J2 |-> dados_dia.J2, J3 |-> dados_dia.J3,
                    J4 |-> dados_dia.J4, J5 |-> dados_dia.J5,
                    TD_PCT_DIA |-> dados_dia.TD_PCT])]

\* for dia in datas_periodo: ...  A failure of the daily aggregator ends the
\* loop and is the result.
RECURSIVE Consolidar(_, _, _, _)
Consolidar(cols, d, datas, ac) ==
    IF datas = <<>> THEN ac
    ELSE LET dados_dia == processar_dados_diarios(cols, d, Head(datas))
         IN  IF dados_dia.tipo = "erro" THEN dados_dia
             ELSE IF dados_dia.TOTAL = 0
             THEN Consolidar(cols, d, Tail(datas), ac)
             ELSE Consolidar(cols, d, Tail(datas), Acumular(ac, dados_dia))

\* n_dias = len(janela_dia)
NDiasCalendario(linhas_dia, data_ini, data_fim) == data_fim - data_ini + 1

NDias(linhas_dia, data_ini, data_fim) == Len(linhas_dia)

\* sorted(df['DTHRSAIDA'].dropna().dt.date.unique())
DatasCandidatasDesc(d) ==
    OrdenarConjunto({r.DTHRSAIDA.dia : r \in {x \in DOMAIN d : x.DTHRSAIDA # NaT}},
                    LAMBDA a, b : a > b)

datas_candidatas(d) ==
    OrdenarConjunto({r.DTHRSAIDA.dia : r \in {x \in DOMAIN d : x.DTHRSAIDA # NaT}},
                    LAMBDA a, b : a < b)

\* di <= d <= dfim
NoPeriodoAberto(x, data_ini, data_fim) == data_ini <= x /\ x < data_fim

NoPeriodo(x, data_ini, data_fim) == data_ini <= x /\ x <= data_fim

\* [d for d in datas_candidatas if di <= d <= dfim]
datas_periodo(d, data_ini, data_fim) ==
    SelectSeq(datas_candidatas(d), LAMBDA x : NoPeriodo(x, data_ini, data_fim))

\* df[df['DTHRSAIDA'].notna() & (df['DTHRSAIDA'].dt.date.isin(datas_periodo))]
BasePeriodoPrimeiroDia(d, datas) ==
    Filtrar(d, LAMBDA r : /\ r.DTHRSAIDA # NaT
                          /\ datas # <<>>
                          /\ datas[1] = r.DTHRSAIDA.dia)

base_periodo(d, datas) ==
    Filtrar(d, LAMBDA r : /\ r.DTHRSAIDA # NaT
                          /\ \E i \in DOMAIN datas : datas[i] = r.DTHRSAIDA.dia)

processar_dados_periodo(cols, d, data_ini, data_fim) ==
    IF "DTHRSAIDA" \notin cols THEN Erro("MissingColumn", "DTHRSAIDA")
    ELSE
    LET datas == datas_periodo(d, data_ini, data_fim)
        ac == Consolidar(cols, d, datas, Acumulado0)
        n_dias == NDias(ac.linhas_dia, data_ini, data_fim)
        META(j) == meta_base(j) * n_dias
        base_per == base_periodo(d, datas)
    IN  IF datas = <<>> THEN Erro("NoData", "periodo")
        ELSE IF ac.tipo = "erro" THEN ac
        ELSE IF ac.linhas_dia = <<>> THEN Erro("NoData", "consolidacao")
        ELSE IF "SITUACAO" \notin cols THEN Erro("MissingColumn", "SITUACAO")
        ELSE IF "MOTORISTA" \notin cols THEN Erro("MissingColumn", "MOTORISTA")
        ELSE IF "BAIRRO" \notin cols THEN Erro("MissingColumn", "BAIRRO")
        ELSE
        [tipo |-> "periodo",
         data_ini |-> data_ini,
         data_fim |-> data_fim,
         N_DIAS |-> n_dias,
         TOTAL |-> ac.TOTAL,
         ENTREGUE |-> ac.ENTREGUE,
         DEVOLVIDO |-> ac.DEVOLVIDO,
         EM_ENTREGA |-> ac.EM_ENTREGA,
         TD_PCT |-> TaxaDevolucao(ac.ENTREGUE, ac.DEVOLVIDO),
         J1 |-> ac.J1, J2 |-> ac.J2, J3 |-> ac.J3, J4 |-> ac.J4, J5 |-> ac.J5,
         META_J1 |-> META("J1"), META_J2 |-> META("J2"), META_J3 |-> META("J3"),
         META_J4 |-> META("J4"), META_J5 |-> META("J5"),
         META_TOTAL |-> META("TOTAL"),
         J1_PCT_META |-> PctMeta(ac.J1, META("J1")),
         J2_PCT_META |-> PctMeta(ac.J2, META("J2")),
         J3_PCT_META |-> PctMeta(ac.J3, META("J3")),
         J4_PCT_META |-> PctMeta(ac.J4, META("J4")),
         J5_PCT_META |-> PctMeta(ac.J5, META("J5")),
         TOTAL_PCT_META |-> PctMeta(ac.TOTAL, META("TOTAL")),
         JANELAS_DIA |-> DataFrame(<<"DATA", "TOTAL", "J1", "J2", "J3", "J4", "J5",
                                    "TD_PCT_DIA">>, ac.linhas_dia),
         PROD_MOTORISTA |-> ProdMotorista(base_per),
         BAIRRO_ANALISE |-> BairroAnalise(base_per),
         VEICULO_ANALISE |-> VeiculoAnalise(cols, base_per)]

(***************************************************************************)
(* The caller's frame. The aggregators assign derived columns (JANELA,     *)
(* HORA_SAIDA, VEICULO_TIPO) to the frames base, base_J1, base_J4 and      *)
(* base_periodo; what the caller's df holds after a call depends on which  *)
(* of those frames are the caller's own.                                   *)
(***************************************************************************)
\* The frame a local name is bound to: base, base_J1, base_J4 and
\* base_periodo are each the result of .copy(), a frame of their own.
QuadroSemCopia(nome) == IF nome \in {"df", "base", "base_periodo"} THEN "df" ELSE nome

Quadro(nome) == IF nome = "df" THEN "df" ELSE nome

\* frame[coluna] = ...: one column assignment.
Escrita(alvo, coluna) == [alvo |-> alvo, coluna |-> coluna]

\* The column assignments of one call of processar_dados_diarios, up to its
\* return or to the statement that raises.
EscritasDiario(cols, d, data_ref) ==
    LET base == BaseDoDia(d, data_ref)
        J1 == janela_counts(base, "J1")
        J4 == janela_counts(base, "J4")
        tem_chaves == "MOTORISTA" \in cols /\ "BAIRRO" \in cols
    IN  IF "DTHRSAIDA" \notin cols \/ Vazio(base) THEN {}
        ELSE {Escrita("base", "JANELA")}
             \cup (IF J1 > 0 THEN {Escrita("base_J1", "HORA_SAIDA")} ELSE {})
             \cup (IF J4 > 0 /\ (J1 = 0 \/ tem_chaves)
                   THEN {Escrita("base_J4", "HORA_SAIDA")} ELSE {})

\* The column assignments of one call of processar_dados_periodo: those of
\* the daily calls of its loop, up to the first that raises, and the
\* VEICULO_TIPO column when the vehicle breakdown is reached.
EscritasPeriodo(cols, d, data_ini, data_fim) ==
    IF "DTHRSAIDA" \notin cols THEN {}
    ELSE
    LET datas == datas_periodo(d, data_ini, data_fim)
        tem_chaves == "MOTORISTA" \in cols /\ "BAIRRO" \in cols
        Falha(i) ==
            LET base == BaseDoDia(d, datas[i])
            IN  /\ ~tem_chaves
                /\ janela_counts(base, "J1") + janela_counts(base, "J4") > 0
        feitos == {i \in DOMAIN datas : \A k \in 1..(i - 1) : ~Falha(k)}
    IN  UNION {EscritasDiario(cols, d, datas[i]) : i \in feitos}
        \cup (IF /\ datas # <<>>
                 /\ \A i \in DOMAIN datas : ~Falha(i)
                 /\ {"SITUACAO", "MOTORISTA", "BAIRRO", "TPRODADO"} \subseteq cols
              THEN {Escrita("base_periodo", "VEICULO_TIPO")} ELSE {})

\* df.columns of the caller's frame after the assignments.
ColunasApos(cols, escritas) ==
    cols \cup {w.coluna : w \in {x \in escritas : Quadro(x.alvo) = "df"}}

(***************************************************************************)
(* The inputs of the model.                                                *)
(***************************************************************************)
Todas == {"DTHRSAIDA", "SITUACAO", "MOTORISTA", "BAIRRO", "TPRODADO"}

MotoristaA == <<"M","O","T","O","R","I","S","T","A"," ","A">>
MotoristaB == <<"m","o","t","o","r","i","s","t","a"," ","b">>
AjudanteC == <<"A","J","U","D","A","N","T","E"," ","C">>
Centro == <<"C","E","N","T","R","O">>
Bela == <<"B","E","L","A">>

SitEntregue == <<"E","N","T","R","E","G","U","E">>
SitDevolvido == <<"d","e","v","o","l","v","i","d","o">>
SitEmEntrega == <<"E","m"," ","E","n","t","r","e","g","a">>
SitAmbos == <<"E","n","t","r","e","g","u","e","/","D","e","v","o","l","v","i","d","o">>

\* The last second of window J1 and the first of J2 .. J5.
Fronteiras ==
    {Limite1 - 1, Limite1, Limite2, Limite3, Limite4}

\* Every minute of the day, at its first and at its last second.
SegundosModelados ==
    {Hora(0, m) + s : m \in 0..((SegundosDia \div Hora(0, 1)) - 1), s \in {0, 59}}

Instantes == {[dia |-> d, seg |-> s] : d \in Dias, s \in SegundosModelados}

Em(d, s) == [dia |-> d, seg |-> s]

\* Rows of the main specification: on day 1 a delivered row at the last second
\* of J1 and at the first of J2 .. J5; on every day a row in J1 whose status
\* names both a delivery and a return and a row in J5 still in delivery; and
\* a row whose departure is missing and one whose departure is unparseable.
LinhasJanelas ==
    {Linha(Em(1, s), SitEntregue, MotoristaA, Centro, Codigo("int", 50)) :
        s \in Fronteiras}
    \cup {Linha(Em(d, Limite1 - 1), SitAmbos, MotoristaB, Bela, Codigo("int", 50)) :
            d \in Dias}
    \cup {Linha(Em(d, Limite4), SitEmEntrega, MotoristaA, Bela, Codigo("int", 50)) :
            d \in Dias}
    \cup {Linha(t, SitDevolvido, MotoristaA, Centro, Codigo("int", 50)) :
            t \in {NaT, Invalido}}

\* Rows of the breakdown tables: status texts in either case, one naming both
\* categories, one missing; drivers with and without the marker; vehicle codes
\* as integer, float and text, unmapped and missing.
LinhasTabelas ==
    {Linha(Em(1, Limite1), SitEntregue, MotoristaA, Centro, Codigo("int", 50)),
     Linha(Em(1, Limite1), SitDevolvido, MotoristaA, Centro, Codigo("float", 50)),
     Linha(Em(1, Limite1), SitAmbos, MotoristaB, Bela, Codigo("int", 990)),
     Linha(Em(1, Limite1), NaN, AjudanteC, Bela, CodigoNaN),
     Linha(Em(1, Limite1), SitDevolvido, NaN, NaN, Codigo("float", 20)),
     Linha(Em(1, Limite1), SitEmEntrega, MotoristaA, Bela, Codigo("str", 50))}
    \cup {Linha(Em(d, Limite1), SitEntregue, MotoristaA, Centro, Codigo("float", 50)) :
            d \in Dias \ {1}}
    \cup {Linha(Em(d, Limite1), SitDevolvido, MotoristaB, Centro, Codigo("int", 50)) :
            d \in Dias \ {1}}

\* Rows of the ranking: one day, two drivers in two neighborhoods.
LinhasRanking ==
    {Linha(Em(1, Limite1), SitEntregue, m, b, Codigo("int", 50)) :
        m \in {MotoristaA, MotoristaB}, b \in {Centro, Bela}}

\* Ten neighborhoods, B0 .. B9, and ten departures, 08:00 .. 17:00.
BairroN(n) == <<"B", Digitos[n + 1]>>

\* A log of 19 rows of day 1, each of another (driver, neighborhood) pair:
\* MOTORISTA A in B0 .. B9 and motorista b in B0 .. B8, over all windows.
LinhasCorteBase ==
    {Linha(Em(1, Hora(8 + n, 0)), SitEntregue, MotoristaA, BairroN(n),
           Codigo("int", 50)) : n \in 0..9}
    \cup {Linha(Em(1, Hora(8 + n, 0)), SitEntregue, MotoristaB, BairroN(n),
                Codigo("int", 50)) : n \in 0..8}

\* Rows added to that log: a 20th, a 21st and a 22nd pair, a second row of a
\* pair it has, a row without neighborhood, and a row on each other day.
LinhasCorte ==
    {Linha(Em(1, Hora(17, 0)), SitEntregue, MotoristaB, BairroN(9), Codigo("int", 50)),
     Linha(Em(1, Hora(8, 0)), SitEntregue, AjudanteC, BairroN(0), Codigo("int", 50)),
     Linha(Em(1, Hora(9, 0)), SitEntregue, AjudanteC, BairroN(1), Codigo("int", 50)),
     Linha(Em(1, Hora(8, 30)), SitDevolvido, MotoristaB, BairroN(0), Codigo("int", 50)),
     Linha(Em(1, Hora(8, 0)), SitEntregue, MotoristaA, NaN, Codigo("int", 50))}
    \cup {Linha(Em(d, Hora(8, 0)), SitEntregue, MotoristaA, BairroN(0),
                Codigo("int", 50)) : d \in Dias \ {1}}

\* Rows of the detail tables: on day 1, in J1, two rows of one pair in the
\* same minute, the pair in another neighborhood, another driver earlier, and
\* a row without driver; in J4, its first and its last second; a row in J2;
\* and a row in J1 on each other day.
LinhasDetalhe ==
    {Linha(Em(1, Hora(8, 59)), SitEntregue, MotoristaA, Centro, Codigo("int", 50)),
     Linha(Em(1, Hora(8, 59) + 59), SitEntregue, MotoristaA, Centro, Codigo("int", 50)),
     Linha(Em(1, Hora(8, 59)), SitEntregue, MotoristaA, Bela, Codigo("int", 50)),
     Linha(Em(1, Hora(8, 0)), SitEntregue, MotoristaB, Bela, Codigo("int", 50)),
     Linha(Em(1, Hora(8, 59) + 59), SitEntregue, NaN, Centro, Codigo("int", 50)),
     Linha(Em(1, Limite3), SitEntregue, MotoristaA, Bela, Codigo("int", 50)),
     Linha(Em(1, Limite4 - 1), SitEntregue, MotoristaB, Centro, Codigo("int", 50)),
     Linha(Em(1, Limite1), SitEntregue, MotoristaA, Centro, Codigo("int", 50))}
    \cup {Linha(Em(d, Hora(8, 59)), SitEntregue, MotoristaA, Centro,
                Codigo("int", 50)) : d \in Dias \ {1}}

\* Rows for the schemas: each day, a row in J1 and a row in J2, and a row
\* whose departure is missing.
LinhasEsquema ==
    {Linha(Em(d, s), SitEntregue, MotoristaA, Centro, Codigo("int", 50)) :
        d \in Dias, s \in {Limite1 - 1, Limite1}}
    \cup {Linha(NaT, SitEntregue, MotoristaA, Centro, Codigo("int", 50))}

\* The schemas: every column, or all but one.
Esquemas == {Todas} \cup {Todas \ {c} : c \in Todas}

(***************************************************************************)
(* The state machine: the delivery log grows row by row; a request of      *)
(* gerar reads the whole log, prepares it and computes a report or a       *)
(* failure, which is then sent. Nothing of a request stays after its       *)
(* answer is sent, and the next request starts from the log alone.         *)
(***************************************************************************)
Nenhum == [tipo |-> "nenhum"]

\* The row as the spreadsheet's columns hold it.
Projetar(cols, r) ==
    Linha(IF "DTHRSAIDA" \in cols THEN r.DTHRSAIDA ELSE NaT,
          IF "SITUACAO" \in cols THEN r.SITUACAO ELSE NaN,
          IF "MOTORISTA" \in cols THEN r.MOTORISTA ELSE NaN,
          IF "BAIRRO" \in cols THEN r.BAIRRO ELSE NaN,
          IF "TPRODADO" \in cols THEN r.TPRODADO ELSE CodigoNaN)

Inicio(esquemas) ==
    /\ colunas \in esquemas
    /\ df = EmptyBag
    /\ pedido = Nenhum
    /\ resultado = Nenhum
    /\ dt = NaT
    /\ janela = "nenhuma"

Ocioso == pedido = Nenhum

RegistrarEntrega(r, max) ==
    /\ Ocioso
    /\ Tamanho(df) < max
    /\ df' = df (+) SetToBag({Projetar(colunas, r)})
    /\ UNCHANGED <<colunas, pedido, resultado, dt, janela>>

\* gerar with tipo_relatorio = "diario"
GerarDiario(data_ref) ==
    /\ Ocioso
    /\ pedido' = [tipo |-> "diario", data_ini |-> data_ref, data_fim |-> data_ref]
    /\ resultado' = processar_dados_diarios(colunas, preparar_dataframe(colunas, df),
                                            data_ref)
    /\ colunas' = ColunasApos(colunas,
                      EscritasDiario(colunas, preparar_dataframe(colunas, df), data_ref))
    /\ UNCHANGED <<df, dt, janela>>

\* gerar with tipo_relatorio = "periodo"
GerarPeriodo(data_ini, data_fim) ==
    /\ Ocioso
    /\ pedido' = [tipo |-> "periodo", data_ini |-> data_ini, data_fim |-> data_fim]
    /\ resultado' = processar_dados_periodo(colunas, preparar_dataframe(colunas, df),
                                            data_ini, data_fim)
    /\ colunas' = ColunasApos(colunas,
                      EscritasPeriodo(colunas, preparar_dataframe(colunas, df),
                                      data_ini, data_fim))
    /\ UNCHANGED <<df, dt, janela>>

\* The answer leaves: the PDF by send_file, the failure by the error page.
Responder ==
    /\ ~Ocioso
    /\ pedido' = Nenhum
    /\ resultado' = Nenhum
    /\ UNCHANGED <<colunas, df, dt, janela>>

Gerar ==
    \/ \E data_ref \in Dias : GerarDiario(data_ref)
    \/ \E data_ini \in Dias, data_fim \in Dias : GerarPeriodo(data_ini, data_fim)
    \/ Responder

Init == Inicio({Todas})

Next ==
    \/ \E r \in LinhasJanelas : RegistrarEntrega(r, MaxLinhas)
    \/ Gerar

Spec == Init /\ [][Next]_vars

InitTabelas == Inicio({Todas, Todas \ {"TPRODADO"}, Todas \ {"SITUACAO"}})

NextTabelas ==
    \/ \E r \in LinhasTabelas : RegistrarEntrega(r, MaxLinhas)
    \/ Gerar

SpecTabelas == InitTabelas /\ [][NextTabelas]_vars

InitRanking == Inicio({Todas})

NextRanking ==
    \/ \E r \in LinhasRanking : RegistrarEntrega(r, MaxLinhasRanking)
    \/ Gerar

SpecRanking == InitRanking /\ [][NextRanking]_vars

InitEsquema == Inicio(Esquemas)

NextEsquema ==
    \/ \E r \in LinhasEsquema : RegistrarEntrega(r, MaxLinhas)
    \/ Gerar

SpecEsquema == InitEsquema /\ [][NextEsquema]_vars

InitDetalhe == Inicio({Todas})

NextDetalhe ==
    \/ \E r \in LinhasDetalhe : RegistrarEntrega(r, MaxLinhas)
    \/ Gerar

SpecDetalhe == InitDetalhe /\ [][NextDetalhe]_vars

\* The ranking at its limit of 20 rows: the log starts with 19 pairs.
InitCorte ==
    /\ colunas = Todas
    /\ df = SetToBag(LinhasCorteBase)
    /\ pedido = Nenhum
    /\ resultado = Nenhum
    /\ dt = NaT
    /\ janela = "nenhuma"

NextCorte ==
    \/ \E r \in LinhasCorte : RegistrarEntrega(r, MaxLinhasCorte)
    \/ Gerar

SpecCorte == InitCorte /\ [][NextCorte]_vars

\* The window classifier on its own: one timestamp, classified once.
InitJanela ==
    /\ colunas = Todas
    /\ df = EmptyBag
    /\ pedido = Nenhum
    /\ resultado = Nenhum
    /\ dt \in Instantes \cup {NaT}
    /\ janela = "pendente"

Classificar ==
    /\ janela = "pendente"
    /\ janela' = classificar_janela(dt)
    /\ UNCHANGED <<colunas, df, pedido, resultado, dt>>

SpecJanela == InitJanela /\ [][Classificar]_vars

(***************************************************************************)
(* What the claims speak of, stated on the log and the request alone.      *)
(***************************************************************************)
Janelas == {"J1", "J2", "J3", "J4", "J5"}

\* The rows of the log whose departure is a timestamp of a day in ini..fim.
NoIntervalo(ini, fim) == {r \in DOMAIN df : r.DTHRSAIDA.dia \in ini..fim}

\* Whether a time of day lies in the documented interval of window j.
NaJanela(j, seg) ==
    CASE j = "J1" -> seg < Hora(9, 0)
      [] j = "J2" -> Hora(9, 0) <= seg /\ seg < Hora(10, 30)
      [] j = "J3" -> Hora(10, 30) <= seg /\ seg < Hora(12, 0)
      [] j = "J4" -> Hora(12, 0) <= seg /\ seg < Hora(14, 30)
      [] j = "J5" -> Hora(14, 30) <= seg

\* The status texts of the model that name a delivery, and a return.
NomeiaEntrega == {SitEntregue, SitAmbos}
NomeiaDevolucao == {SitDevolvido, SitAmbos}

Abs(x) == IF x < 0 THEN -x ELSE x

\* td hundredths of a percent is 100 * d / (e + d) rounded to two decimals
\* (the nearest; the even one of two equally near), or 0 when e + d = 0.
TaxaCerta(td, e, d) ==
    /\ td \in 0..(100 * 100)
    /\ IF e + d = 0 THEN td = 0
       ELSE /\ 2 * Abs(td * (e + d) - 100 * 100 * d) <= e + d
            /\ 2 * Abs(td * (e + d) - 100 * 100 * d) = e + d => td % 2 = 0

\* The rows of a table above its last row.
Corpo(t) == IF t.rows = <<>> THEN <<>> ELSE SubSeq(t.rows, 1, Len(t.rows) - 1)

Preparado == preparar_dataframe(colunas, df)

(***************************************************************************)
(* C1                                                                      *)
(***************************************************************************)
\* C1: for every timestamp that is not missing, classificar_janela gives
\* exactly one of J1..J5, decided by the time of day alone, with closed-open
\* limits (before 09:00 J1, from 09:00 J2, from 10:30 J3, from 12:00 J4, from
\* 14:30 J5); for a missing timestamp it gives the missing marker.
C1_JanelaPelaHora ==
    janela # "pendente" =>
        IF dt = NaT THEN janela = JanelaNaN
        ELSE /\ janela \in Janelas
             /\ \A j \in Janelas : (janela = j) <=> NaJanela(j, dt.seg)
             /\ \A d \in Dias : classificar_janela(Em(d, dt.seg)) = janela
             /\ dt.seg = Hora(8, 59) => janela = "J1"
             /\ dt.seg = Hora(9, 0) => janela = "J2"
             /\ dt.seg = Hora(10, 30) => janela = "J3"
             /\ dt.seg = Hora(12, 0) => janela = "J4"
             /\ dt.seg = Hora(14, 30) => janela = "J5"

C1_NaFronteira == janela = "J2" /\ dt # NaT /\ dt.seg = Hora(9, 0)

(***************************************************************************)
(* C2                                                                      *)
(***************************************************************************)
\* C2: in every daily report the five window counts sum to at most TOTAL,
\* and to TOTAL itself since no selected row has a missing departure; TOTAL
\* is the number of rows that departed on the reference day and each window
\* count is the number of them whose time of day lies in that window, so
\* each is counted in exactly one window.
C2_JanelasParticionam ==
    resultado.tipo = "diario" =>
        LET sel == NoIntervalo(pedido.data_ini, pedido.data_ini)
            S == resultado.J1 + resultado.J2 + resultado.J3 + resultado.J4
                   + resultado.J5
        IN  /\ S <= resultado.TOTAL
            /\ resultado.TOTAL = SomaBag(df, sel)
            /\ S = SomaBag(df, sel)
            /\ \A j \in Janelas :
                  resultado[j] = SomaBag(df, {r \in sel : NaJanela(j, r.DTHRSAIDA.seg)})

C2_DiaComFaltantes ==
    /\ resultado.tipo = "diario"
    /\ resultado.TOTAL >= 2
    /\ resultado.J1 >= 1
    /\ resultado.J5 >= 1
    /\ \E r \in DOMAIN df : r.DTHRSAIDA = Invalido

(***************************************************************************)
(* C3                                                                      *)
(***************************************************************************)
\* The return rate of every row of table t above its last row.
TaxasDaTabela(t) ==
    \A i \in DOMAIN Corpo(t) :
        TaxaCerta(t.rows[i].TD_PCT, t.rows[i].ENTREGAS, t.rows[i].DEVOLUCOES)

\* C3: every return rate produced (of the daily report, of the period report
\* and of every row above the total row of the driver, neighborhood and
\* vehicle tables) is within 0..100, is 100 * returned / (delivered +
\* returned) rounded to two decimals when that sum is positive and 0.0 when
\* it is 0, also without a status column in the daily report and when one
\* status text names both a delivery and a return.
C3_TaxaDevolucao ==
    /\ resultado.tipo = "diario" =>
          LET sel == NoIntervalo(pedido.data_ini, pedido.data_ini)
          IN  /\ TaxaCerta(resultado.TD_PCT, resultado.ENTREGUE, resultado.DEVOLVIDO)
              /\ resultado.ENTREGUE =
                    SomaBag(df, {r \in sel : r.SITUACAO \in NomeiaEntrega})
              /\ resultado.DEVOLVIDO =
                    SomaBag(df, {r \in sel : r.SITUACAO \in NomeiaDevolucao})
              /\ "SITUACAO" \notin colunas => resultado.TD_PCT = 0
    /\ resultado.tipo = "periodo" =>
          /\ TaxaCerta(resultado.TD_PCT, resultado.ENTREGUE, resultado.DEVOLVIDO)
          /\ TaxasDaTabela(resultado.PROD_MOTORISTA)
          /\ TaxasDaTabela(resultado.BAIRRO_ANALISE)
          /\ TaxasDaTabela(resultado.VEICULO_ANALISE)

C3_TaxaArredondada ==
    /\ resultado.tipo = "periodo"
    /\ resultado.TD_PCT \notin {0, 50 * 100, 100 * 100}
    /\ \E r \in NoIntervalo(pedido.data_ini, pedido.data_fim) : r.SITUACAO = SitAmbos
    /\ Len(resultado.VEICULO_ANALISE.rows) >= 3

(***************************************************************************)
(* C4                                                                      *)
(***************************************************************************)
\* C4: in every period report each total (TOTAL, ENTREGUE, DEVOLVIDO,
\* EM_ENTREGA, J1..J5) is the sum, over the kept days, of the same field of
\* the daily report of that day, the kept days being the days of the range
\* that have a row; and the TOTAL and J1..J5 columns of JANELAS_DIA sum to
\* the period's TOTAL and J1..J5.
C4_TotaisDoPeriodo ==
    resultado.tipo = "periodo" =>
        LET dias == resultado.JANELAS_DIA.rows
            dia(i) == processar_dados_diarios(colunas, Preparado, dias[i].DATA)
            Campos == {"TOTAL", "ENTREGUE", "DEVOLVIDO", "EM_ENTREGA"} \cup Janelas
        IN  /\ {dias[i].DATA : i \in DOMAIN dias}
                  = {r.DTHRSAIDA.dia : r \in NoIntervalo(pedido.data_ini, pedido.data_fim)}
            /\ \A i \in DOMAIN dias : dia(i).tipo = "diario"
            /\ \A c \in Campos :
                  resultado[c] = Soma([i \in DOMAIN dias |-> dia(i)[c]])
            /\ \A c \in {"TOTAL"} \cup Janelas :
                  resultado[c] = Soma([i \in DOMAIN dias |-> dias[i][c]])

C4_DoisDias ==
    /\ resultado.tipo = "periodo"
    /\ resultado.N_DIAS = 2
    /\ resultado.J5 >= 2
    /\ resultado.DEVOLVIDO >= 1

(***************************************************************************)
(* C5                                                                      *)
(***************************************************************************)
\* C5: the daily ranking has at most 20 rows, the rows of one driver are
\* contiguous in it and are ordered among themselves by count descending,
\* then neighborhood ascending, also when drivers have equal totals.
C5_RankingContiguo ==
    resultado.tipo = "diario" =>
        LET rk == resultado.rank.rows
        IN  /\ Len(rk) <= 20
            /\ \A i \in DOMAIN rk, k \in DOMAIN rk :
                  (i < k /\ rk[i].MOTORISTA = rk[k].MOTORISTA) =>
                      /\ \A j \in i..k : rk[j].MOTORISTA = rk[i].MOTORISTA
                      /\ \/ rk[i].QTD > rk[k].QTD
                         \/ rk[i].QTD = rk[k].QTD
                              /\ TextoMenor(rk[i].BAIRRO, rk[k].BAIRRO)

(***************************************************************************)
(* C6                                                                      *)
(***************************************************************************)
\* The last row of table t is labelled as the grand total and carries the
\* sums of the columns of the rows above it.
TotalGeralCerto(t, rotulo, total) ==
    LET ult == t.rows[Len(t.rows)]
        c == Corpo(t)
    IN  /\ ult[rotulo] = total
        /\ ult.ENTREGAS = Soma([i \in DOMAIN c |-> c[i].ENTREGAS])
        /\ ult.DEVOLUCOES = Soma([i \in DOMAIN c |-> c[i].DEVOLUCOES])
        /\ ult.TOTAL = Soma([i \in DOMAIN c |-> c[i].TOTAL])
        /\ ult.TOTAL = ult.ENTREGAS + ult.DEVOLUCOES

\* C6: in each breakdown table of a period report that has a grand-total row
\* (driver productivity, neighborhood, vehicle type) the last row is labelled
\* TOTAL GERAL, its ENTREGAS, DEVOLUCOES and TOTAL are the column sums of the
\* rows above it, and its TOTAL is its ENTREGAS plus its DEVOLUCOES.
C6_TotalGeral ==
    resultado.tipo = "periodo" =>
        /\ resultado.PROD_MOTORISTA.rows # <<>>
        /\ TotalGeralCerto(resultado.PROD_MOTORISTA, "MOTORISTA", TotalGeral)
        /\ resultado.BAIRRO_ANALISE.rows # <<>>
        /\ TotalGeralCerto(resultado.BAIRRO_ANALISE, "BAIRRO", TotalGeral)
        /\ "TPRODADO" \in colunas =>
              /\ resultado.VEICULO_ANALISE.rows # <<>>
              /\ TotalGeralCerto(resultado.VEICULO_ANALISE, "VEICULO_TIPO",
                                 "TOTAL GERAL")

C6_TabelaComTotal ==
    /\ resultado.tipo = "periodo"
    /\ Len(resultado.PROD_MOTORISTA.rows) >= 3
    /\ resultado.PROD_MOTORISTA.rows[Len(resultado.PROD_MOTORISTA.rows)].ENTREGAS >= 1
    /\ resultado.PROD_MOTORISTA.rows[Len(resultado.PROD_MOTORISTA.rows)].DEVOLUCOES >= 1
    /\ Len(resultado.VEICULO_ANALISE.rows) >= 3

(***************************************************************************)
(* C7, C8                                                                  *)
(***************************************************************************)
\* C7: processar_dados_diarios fails with MissingColumn when the log has no
\* DTHRSAIDA column, fails with NoData when the column exists and no row
\* departed on the reference day, and otherwise returns a report with
\* TOTAL >= 1.
C7_FalhasDoDiario ==
    pedido.tipo = "diario" =>
        IF "DTHRSAIDA" \notin colunas
        THEN resultado.tipo = "erro" /\ resultado.erro = "MissingColumn"
        ELSE IF NoIntervalo(pedido.data_ini, pedido.data_ini) = {}
        THEN resultado.tipo = "erro" /\ resultado.erro = "NoData"
        ELSE resultado.tipo = "diario" /\ resultado.TOTAL >= 1

\* C8: for a day that has rows, in a log without the MOTORISTA or the BAIRRO
\* column, the daily aggregator raises MissingColumn when it builds the
\* ranking, and nowhere else: the window counts and the J1 and J4 detail
\* tables do not fail for the missing column.
C8_FaltaSoNoRanking ==
    ( /\ pedido.tipo = "diario"
      /\ "DTHRSAIDA" \in colunas
      /\ "MOTORISTA" \notin colunas \/ "BAIRRO" \notin colunas
      /\ NoIntervalo(pedido.data_ini, pedido.data_ini) # {} )
    => /\ resultado.tipo = "erro"
       /\ resultado.erro = "MissingColumn"
       /\ resultado.etapa = "ranking"

(***************************************************************************)
(* C9                                                                      *)
(***************************************************************************)
\* C9: in every period report each scaled target is the daily target (J1 30,
\* J2 20, J3 10, J4 30, J5 10, total 100) times N_DIAS, the number of days of
\* the range that have rows, not the number of calendar days of the range;
\* for a period of a single day, N_DIAS is 1 and the targets and the
\* percentages of target are those of the daily report of that day.
C9_MetasDoPeriodo ==
    resultado.tipo = "periodo" =>
        LET n == Cardinality({r.DTHRSAIDA.dia :
                                r \in NoIntervalo(pedido.data_ini, pedido.data_fim)})
            dd == processar_dados_diarios(colunas, Preparado, pedido.data_ini)
        IN  /\ resultado.N_DIAS = n
            /\ resultado.META_J1 = 30 * n
            /\ resultado.META_J2 = 20 * n
            /\ resultado.META_J3 = 10 * n
            /\ resultado.META_J4 = 30 * n
            /\ resultado.META_J5 = 10 * n
            /\ resultado.META_TOTAL = 100 * n
            /\ pedido.data_ini = pedido.data_fim =>
                  /\ n = 1
                  /\ dd.tipo = "diario"
                  /\ resultado.META_J1 = meta("J1")
                  /\ resultado.META_J2 = meta("J2")
                  /\ resultado.META_J3 = meta("J3")
                  /\ resultado.META_J4 = meta("J4")
                  /\ resultado.META_J5 = meta("J5")
                  /\ resultado.META_TOTAL = MetaTotalDia
                  /\ resultado.J1_PCT_META = dd.J1_PCT
                  /\ resultado.J2_PCT_META = dd.J2_PCT
                  /\ resultado.J3_PCT_META = dd.J3_PCT
                  /\ resultado.J4_PCT_META = dd.J4_PCT
                  /\ resultado.J5_PCT_META = dd.J5_PCT
                  /\ resultado.TOTAL_PCT_META = dd.TOTAL_PCT

C9_DiasSemRegistro ==
    /\ resultado.tipo = "periodo"
    /\ pedido.data_ini < pedido.data_fim
    /\ resultado.N_DIAS = 1
    /\ resultado.TOTAL >= 2

(***************************************************************************)
(* C10                                                                     *)
(***************************************************************************)
\* The label the documented mapping gives a vehicle code.
RotuloEsperado(c) ==
    IF c.tipo \in {"int", "float"} /\ c.v10 \in {0, 20, 50, 60, 70}
    THEN CASE c.v10 = 0 -> "00 - Munk"
           [] c.v10 = 20 -> "02 - Toco (Cacamba 5m3)"
           [] c.v10 = 50 -> "05 - Utilitario (HR)"
           [] c.v10 = 60 -> "06 - Cacamba 3m3"
           [] c.v10 = 70 -> "07 - VUC (Carroceria 6m)"
    ELSE "Outro / Nao mapeado"

\* C10: in the vehicle table each code of {0, 2, 5, 6, 7} has its fixed
\* label whether integer or float, so 5 and 5.0 fall in one group, and every
\* other or missing code falls in the one group of the unmapped; without the
\* vehicle column the table is empty, with its five columns and no total
\* row, and the period aggregation does not fail.
C10_TabelaDeVeiculos ==
    /\ (resultado.tipo = "periodo" /\ "TPRODADO" \in colunas) =>
          LET c == Corpo(resultado.VEICULO_ANALISE)
              per == NoIntervalo(pedido.data_ini, pedido.data_fim)
              E(l) == SomaBag(df, {r \in per : /\ RotuloEsperado(r.TPRODADO) = l
                                               /\ r.SITUACAO \in NomeiaEntrega})
              D(l) == SomaBag(df, {r \in per : /\ RotuloEsperado(r.TPRODADO) = l
                                               /\ r.SITUACAO \in NomeiaDevolucao})
              rotulos == {RotuloEsperado(r.TPRODADO) : r \in per}
          IN  /\ \A i \in DOMAIN c, k \in DOMAIN c :
                    c[i].VEICULO_TIPO = c[k].VEICULO_TIPO => i = k
              /\ \A i \in DOMAIN c :
                    /\ c[i].VEICULO_TIPO \in rotulos
                    /\ c[i].ENTREGAS = E(c[i].VEICULO_TIPO)
                    /\ c[i].DEVOLUCOES = D(c[i].VEICULO_TIPO)
              /\ \A l \in rotulos :
                    E(l) + D(l) > 0 => \E i \in DOMAIN c : c[i].VEICULO_TIPO = l
    /\ ( /\ pedido.tipo = "periodo"
         /\ colunas = Todas \ {"TPRODADO"}
         /\ NoIntervalo(pedido.data_ini, pedido.data_fim) # {} )
       => /\ resultado.tipo = "periodo"
          /\ resultado.VEICULO_ANALISE =
                DataFrame(<<"VEICULO_TIPO", "ENTREGAS", "DEVOLUCOES", "TOTAL",
                            "TD_PCT">>, <<>>)

C10_CincoInteiroEFloat ==
    /\ resultado.tipo = "periodo"
    /\ \E r \in NoIntervalo(pedido.data_ini, pedido.data_fim) :
          r.TPRODADO = Codigo("int", 50) /\ r.SITUACAO = SitEntregue
    /\ \E r \in NoIntervalo(pedido.data_ini, pedido.data_fim) :
          r.TPRODADO = Codigo("float", 50) /\ r.SITUACAO = SitDevolvido
    /\ \E i \in DOMAIN resultado.VEICULO_ANALISE.rows :
          /\ resultado.VEICULO_ANALISE.rows[i].VEICULO_TIPO = "05 - Utilitario (HR)"
          /\ resultado.VEICULO_ANALISE.rows[i].TOTAL >= 2
    /\ \E i \in DOMAIN resultado.VEICULO_ANALISE.rows :
          resultado.VEICULO_ANALISE.rows[i].VEICULO_TIPO = "Outro / Nao mapeado"

(***************************************************************************)
(* C11, C12                                                                *)
(***************************************************************************)
\* C11: processar_dados_periodo fails with NoData exactly when the log has
\* the DTHRSAIDA column and no row departed on a day d with
\* data_ini <= d <= data_fim; a row that departed on data_ini itself or on
\* data_fim itself is enough not to fail with NoData.
C11_SemDadosNoPeriodo ==
    pedido.tipo = "periodo" =>
        LET SemDados == resultado.tipo = "erro" /\ resultado.erro = "NoData"
            NoPeriodoPedido ==
                {r \in DOMAIN df : /\ pedido.data_ini <= r.DTHRSAIDA.dia
                                   /\ r.DTHRSAIDA.dia <= pedido.data_fim}
        IN  /\ SemDados <=> ("DTHRSAIDA" \in colunas /\ NoPeriodoPedido = {})
            /\ ( /\ pedido.data_ini <= pedido.data_fim
                 /\ \E r \in DOMAIN df :
                       r.DTHRSAIDA.dia \in {pedido.data_ini, pedido.data_fim} )
               => ~SemDados

C11_SoNoUltimoDia ==
    /\ pedido.tipo = "periodo"
    /\ pedido.data_ini < pedido.data_fim
    /\ \E r \in DOMAIN df : r.DTHRSAIDA.dia = pedido.data_fim
    /\ \A r \in DOMAIN df : r.DTHRSAIDA.dia >= 1 => r.DTHRSAIDA.dia = pedido.data_fim
    /\ resultado.tipo = "periodo"

\* C12: for a log with at least one row in the range, the period aggregator
\* fails with MissingColumn whenever the SITUACAO, the MOTORISTA or the BAIRRO
\* column is absent, whichever windows the rows of each day fall into.
C12_FaltaColunaNoPeriodo ==
    ( /\ pedido.tipo = "periodo"
      /\ "DTHRSAIDA" \in colunas
      /\ NoIntervalo(pedido.data_ini, pedido.data_fim) # {}
      /\ ~({"SITUACAO", "MOTORISTA", "BAIRRO"} \subseteq colunas) )
    => /\ resultado.tipo = "erro"
       /\ resultado.erro = "MissingColumn"

(***************************************************************************)
(* C13                                                                     *)
(***************************************************************************)
\* md tenths is total / dias rounded to one decimal (the nearest; the even
\* one of two equally near), or 0 when dias = 0.
MediaCerta(md, total, dias) ==
    IF dias = 0 THEN md = 0
    ELSE /\ 2 * Abs(md * dias - 10 * total) <= dias
         /\ 2 * Abs(md * dias - 10 * total) = dias => md % 2 = 0

\* C13: in the driver productivity table every row above the total row is of
\* a driver whose name contains MOTORISTA in either case; its ENTREGAS and
\* DEVOLUCOES count the driver's rows of the period whose status names a
\* delivery, a return; TOTAL is their sum; MEDIA_DIA is TOTAL divided by the
\* number of distinct days of the period on which the driver has a row,
\* rounded to one decimal; and the rows are in non-increasing order of TOTAL.
C13_ProdutividadePorMotorista ==
    resultado.tipo = "periodo" =>
        LET c == Corpo(resultado.PROD_MOTORISTA)
            per == NoIntervalo(pedido.data_ini, pedido.data_fim)
            Do(m) == {r \in per : r.MOTORISTA = m}
            dw(m) == Cardinality({r.DTHRSAIDA.dia : r \in Do(m)})
        IN  /\ \A i \in DOMAIN c :
                  /\ c[i].MOTORISTA \in {MotoristaA, MotoristaB}
                  /\ c[i].ENTREGAS =
                        SomaBag(df, {r \in Do(c[i].MOTORISTA) :
                                        r.SITUACAO \in NomeiaEntrega})
                  /\ c[i].DEVOLUCOES =
                        SomaBag(df, {r \in Do(c[i].MOTORISTA) :
                                        r.SITUACAO \in NomeiaDevolucao})
                  /\ c[i].TOTAL = c[i].ENTREGAS + c[i].DEVOLUCOES
                  /\ dw(c[i].MOTORISTA) >= 1
                  /\ MediaCerta(c[i].MEDIA_DIA, c[i].TOTAL, dw(c[i].MOTORISTA))
            /\ \A i \in DOMAIN c, k \in DOMAIN c :
                  c[i].MOTORISTA = c[k].MOTORISTA => i = k
            /\ \A i \in DOMAIN c, k \in DOMAIN c : i < k => c[i].TOTAL >= c[k].TOTAL

C13_MediaDeDoisDias ==
    /\ resultado.tipo = "periodo"
    /\ \E i \in DOMAIN Corpo(resultado.PROD_MOTORISTA) :
          /\ resultado.PROD_MOTORISTA.rows[i].TOTAL >= 2
          /\ resultado.PROD_MOTORISTA.rows[i].MEDIA_DIA
                # 10 * resultado.PROD_MOTORISTA.rows[i].TOTAL
    /\ \E r \in NoIntervalo(pedido.data_ini, pedido.data_fim) : r.MOTORISTA = AjudanteC

(***************************************************************************)
(* C14                                                                     *)
(***************************************************************************)
\* The log without the rows whose departure is missing or unparseable.
SemFaltantes(d) == [r \in {x \in DOMAIN d : x.DTHRSAIDA.dia >= 1} |-> d[r]]

\* C14: rows whose departure is missing, or is coerced to missing because it
\* cannot be parsed, never make an aggregation fail and are left out of it:
\* the daily and the period result (every field, or the failure) is the
\* result for the same log without those rows, and the only failure of a
\* log that has all its columns is NoData, when no row with a departure lies
\* in the requested day or range.
C14_FaltantesDescartados ==
    /\ pedido.tipo = "diario" =>
          resultado = processar_dados_diarios(
                          colunas, preparar_dataframe(colunas, SemFaltantes(df)),
                          pedido.data_ini)
    /\ pedido.tipo = "periodo" =>
          resultado = processar_dados_periodo(
                          colunas, preparar_dataframe(colunas, SemFaltantes(df)),
                          pedido.data_ini, pedido.data_fim)
    /\ (pedido.tipo \in {"diario", "periodo"} /\ colunas = Todas
          /\ resultado.tipo = "erro") =>
          /\ resultado.erro = "NoData"
          /\ NoIntervalo(pedido.data_ini, pedido.data_fim) = {}

C14_ComFaltantes ==
    /\ resultado.tipo = "periodo"
    /\ resultado.TOTAL >= 1
    /\ \E r \in DOMAIN df : r.DTHRSAIDA = NaT
    /\ \E r \in DOMAIN df : r.DTHRSAIDA = Invalido

C16_RankingDoDia ==
    resultado.tipo = "diario" =>
        LET rk == resultado.rank.rows
            sel == {r \in NoIntervalo(pedido.data_ini, pedido.data_ini) :
                       r.MOTORISTA # NaN /\ r.BAIRRO # NaN}
            Qtd(m, b) == SomaBag(df, {r \in sel : r.MOTORISTA = m /\ r.BAIRRO = b})
            Tot(m) == SomaBag(df, {r \in sel : r.MOTORISTA = m})
            E == {[MOTORISTA |-> r.MOTORISTA, BAIRRO |-> r.BAIRRO,
                   QTD |-> Qtd(r.MOTORISTA, r.BAIRRO),
                   TOTAL_MOTORISTA |-> Tot(r.MOTORISTA)] : r \in sel}
            Antes(a, b) ==
                \/ a.TOTAL_MOTORISTA > b.TOTAL_MOTORISTA
                \/ /\ a.TOTAL_MOTORISTA = b.TOTAL_MOTORISTA
                   /\ \/ a.QTD > b.QTD
                      \/ /\ a.QTD = b.QTD
                         /\ \/ TextoMenor(a.MOTORISTA, b.MOTORISTA)
                            \/ /\ a.MOTORISTA = b.MOTORISTA
                               /\ TextoMenor(a.BAIRRO, b.BAIRRO)
            cortadas == E \ {rk[i] : i \in DOMAIN rk}
        IN  /\ Len(rk) = IF Cardinality(E) < 20 THEN Cardinality(E) ELSE 20
            /\ \A i \in DOMAIN rk : rk[i] \in E
            /\ \A i \in DOMAIN rk, k \in DOMAIN rk : i < k => Antes(rk[i], rk[k])
            /\ \A i \in DOMAIN rk : \A e \in cortadas : Antes(rk[i], e)

C16_MotoristaCortado ==
    /\ resultado.tipo = "diario"
    /\ Len(resultado.rank.rows) = 20
    /\ resultado.rank.rows[20].MOTORISTA = AjudanteC
    /\ resultado.rank.rows[20].QTD = 1
    /\ resultado.rank.rows[20].TOTAL_MOTORISTA = 2
    /\ resultado.rank.rows[19].MOTORISTA # AjudanteC
    /\ resultado.J1 >= 1
    /\ resultado.J5 >= 1

(***************************************************************************)
(* C17                                                                     *)
(***************************************************************************)
\* The minute of the day that a text HH:MM names.
MinutoDoTexto(h) ==
    LET Val(c) == (CHOOSE i \in DOMAIN Digitos : Digitos[i] = c) - 1
    IN  (Val(h[1]) * 10 + Val(h[2])) * 60 + Val(h[4]) * 10 + Val(h[5])

\* Table t is the detail table of window j, whose count in the report is n.
DetalheCerto(t, j, n) ==
    LET sel == {r \in NoIntervalo(pedido.data_ini, pedido.data_ini) :
                   NaJanela(j, r.DTHRSAIDA.seg)}
        com == {r \in sel : r.MOTORISTA # NaN /\ r.BAIRRO # NaN}
        Da(r, l) == /\ r.DTHRSAIDA.seg \div 60 = MinutoDoTexto(l.HORA_SAIDA)
                    /\ r.MOTORISTA = l.MOTORISTA
                    /\ r.BAIRRO = l.BAIRRO
        Antes(a, b) ==
            \/ TextoMenor(a.HORA_SAIDA, b.HORA_SAIDA)
            \/ /\ a.HORA_SAIDA = b.HORA_SAIDA
               /\ \/ TextoMenor(a.MOTORISTA, b.MOTORISTA)
                  \/ /\ a.MOTORISTA = b.MOTORISTA
                     /\ TextoMenor(a.BAIRRO, b.BAIRRO)
    IN  /\ t.columns = <<"HORA_SAIDA", "MOTORISTA", "BAIRRO", "QTD">>
        /\ sel = {} => t.rows = <<>>
        /\ \A i \in DOMAIN t.rows :
              /\ Len(t.rows[i].HORA_SAIDA) = 5
              /\ t.rows[i].HORA_SAIDA[3] = ":"
              /\ t.rows[i].QTD >= 1
              /\ t.rows[i].QTD = SomaBag(df, {r \in com : Da(r, t.rows[i])})
        /\ \A r \in com : \E i \in DOMAIN t.rows : Da(r, t.rows[i])
        /\ \A i \in DOMAIN t.rows, k \in DOMAIN t.rows :
              i < k => Antes(t.rows[i], t.rows[k])
        /\ com = sel => Soma([i \in DOMAIN t.rows |-> t.rows[i].QTD]) = n

\* C17: the J1 and the J4 detail table of a daily report has one row for each
\* distinct (HH:MM of the departure, driver, neighborhood) among the day's
\* rows of that window, QTD being the number of those rows, in ascending
\* order of (HH:MM, driver, neighborhood); it is empty when the window has no
\* row; and when every row of the window has a driver and a neighborhood its
\* QTD sum to the window's count.
C17_TabelasDeDetalhe ==
    resultado.tipo = "diario" =>
        /\ DetalheCerto(resultado.J1_dist, "J1", resultado.J1)
        /\ DetalheCerto(resultado.J4_dist, "J4", resultado.J4)

C17_DoisNoMesmoMinuto ==
    /\ resultado.tipo = "diario"
    /\ Len(resultado.J1_dist.rows) >= 2
    /\ \E i \in DOMAIN resultado.J1_dist.rows : resultado.J1_dist.rows[i].QTD = 2
    /\ resultado.J4_dist.rows = <<>>

(***************************************************************************)
(* C18                                                                     *)
(***************************************************************************)
\* C18: every day the period aggregator passes to the daily aggregator has a
\* row, so no day is skipped for a zero total and the NoData of the
\* consolidation is never raised; in every period report N_DIAS is the number
\* of distinct departure days of the log within the range and is at least 1,
\* and JANELAS_DIA has one row for each of those days, in ascending order of
\* the day, with the day's number of rows as TOTAL, at least 1.
C18_DiasDoPeriodo ==
    /\ resultado.tipo = "erro" => resultado.etapa # "consolidacao"
    /\ pedido.tipo = "periodo" =>
          \A i \in DOMAIN datas_periodo(Preparado, pedido.data_ini, pedido.data_fim) :
              ~Vazio(BaseDoDia(Preparado,
                        datas_periodo(Preparado, pedido.data_ini, pedido.data_fim)[i]))
    /\ resultado.tipo = "periodo" =>
          LET dias == resultado.JANELAS_DIA.rows
              datas == {r.DTHRSAIDA.dia :
                          r \in NoIntervalo(pedido.data_ini, pedido.data_fim)}
          IN  /\ resultado.N_DIAS = Cardinality(datas)
              /\ resultado.N_DIAS >= 1
              /\ Len(dias) = resultado.N_DIAS
              /\ {dias[i].DATA : i \in DOMAIN dias} = datas
              /\ \A i \in DOMAIN dias, k \in DOMAIN dias :
                    i < k => dias[i].DATA < dias[k].DATA
              /\ \A i \in DOMAIN dias :
                    /\ dias[i].TOTAL >= 1
                    /\ dias[i].TOTAL = SomaBag(df, NoIntervalo(dias[i].DATA, dias[i].DATA))

C18_UmaLinhaPorDia ==
    /\ resultado.tipo = "periodo"
    /\ Len(resultado.JANELAS_DIA.rows) = 2
    /\ resultado.JANELAS_DIA.rows[1].TOTAL >= 2
    /\ resultado.JANELAS_DIA.rows[2].TOTAL = 1

(***************************************************************************)
(* C19                                                                     *)
(***************************************************************************)
\* The last row of a table.
Ultima(t) == t.rows[Len(t.rows)]

\* C19: in every period report of a log that has the TPRODADO column, the
\* total row of the vehicle table has the period's ENTREGUE as ENTREGAS and
\* the period's DEVOLVIDO as DEVOLUCOES; so has the total row of the
\* neighborhood table when no row of the period lacks a neighborhood; and
\* the totals of the driver productivity table are never greater than them.
C19_TotaisDasTabelas ==
    resultado.tipo = "periodo" =>
        /\ "TPRODADO" \in colunas =>
              /\ Ultima(resultado.VEICULO_ANALISE).ENTREGAS = resultado.ENTREGUE
              /\ Ultima(resultado.VEICULO_ANALISE).DEVOLUCOES = resultado.DEVOLVIDO
        /\ (\A r \in NoIntervalo(pedido.data_ini, pedido.data_fim) : r.BAIRRO # NaN) =>
              /\ Ultima(resultado.BAIRRO_ANALISE).ENTREGAS = resultado.ENTREGUE
              /\ Ultima(resultado.BAIRRO_ANALISE).DEVOLUCOES = resultado.DEVOLVIDO
        /\ Ultima(resultado.PROD_MOTORISTA).ENTREGAS <= resultado.ENTREGUE
        /\ Ultima(resultado.PROD_MOTORISTA).DEVOLUCOES <= resultado.DEVOLVIDO

C19_DoisDiasDeTabelas ==
    /\ resultado.tipo = "periodo"
    /\ "TPRODADO" \in colunas
    /\ resultado.N_DIAS = 2
    /\ resultado.ENTREGUE >= 2
    /\ resultado.DEVOLVIDO >= 1
    /\ \A r \in NoIntervalo(pedido.data_ini, pedido.data_fim) : r.BAIRRO # NaN
    /\ Len(resultado.VEICULO_ANALISE.rows) >= 3

====
